---- MODULE Spec2Model ----
(***************************************************************************)
(* Model of routing/uid2gateway.py: a command-line lookup that scans a     *)
(* CSV record file for the first row whose second field equals the phone   *)
(* number given as the only argument and prints that row's first field.    *)
(*                                                                         *)
(* A string is a sequence of one-character strings, so that the empty      *)
(* string, equality of strings and line breaks inside a string are what    *)
(* they are in the program.  An output stream is the sequence of the       *)
(* pieces of text written to it; the piece "\n" ends a line.               *)
(***************************************************************************)
EXTENDS Integers, Sequences, FiniteSets

\* Bounds of the model.
MaxArgs == 2
MaxRows == 2
MaxFields == 2

Newline == "\n"

\* The strings a field or a command-line argument is drawn from: the empty
\* string, a plain one, and one with a line break inside (csv.reader yields
\* such a field from a quoted field; the file is opened with newline='').
FieldValues == { <<>>, <<"7">>, <<"7", Newline, "8">> }

Rows == UNION { [1..n -> FieldValues] : n \in 0..MaxFields }
Files == UNION { [1..n -> Rows] : n \in 0..MaxRows }
ArgLists == UNION { [1..n -> FieldValues] : n \in 0..MaxArgs }

\* Python's None and a returned string.
None == [isNone |-> TRUE, val |-> <<>>]
Some(s) == [isNone |-> FALSE, val |-> s]

\* print(text, ...) writes the text followed by a line terminator.
PrintLine(text) == text \o <<Newline>>

UsageMsg == <<"Usage: uid2gateway.py <phone_number>">>
ErrorMsg(e) == <<"Error reading CSV file: ", e>>

\* str(e) of the exceptions the lookup can meet.
IndexErrorMsg == "list index out of range"
NotFoundMsg == "[Errno 2] No such file or directory: '/opt/gofaxip-process/gateway_phone.csv'"
DeniedMsg == "[Errno 13] Permission denied: '/opt/gofaxip-process/gateway_phone.csv'"
ReadErrorMsg == "'utf-8' codec can't decode byte 0xff: invalid start byte"

OpenErrorMsg(st) == IF st = "missing" THEN NotFoundMsg ELSE DeniedMsg

VARIABLES
  args,          \* sys.argv[1:], the arguments after the program name
  fileStatus,    \* "ok", "missing" or "denied": what open() meets
  rows,          \* the rows csv.reader yields from the file, in file order
  failAt,        \* 0, or the index of the read that raises instead of yielding
  pc,            \* position in the program
  phone_number,  \* main's local
  fileOpen,      \* the file object is open
  opens,         \* number of open() calls that succeeded
  examined,      \* number of rows the reader has yielded to the loop
  exc,           \* str(e) of the exception raised in find_gateway, "" if none
  gateway,       \* find_gateway's return value, as main holds it
  stdout,
  stderr,
  status         \* exit status of the process, -1 while it runs

vars == <<args, fileStatus, rows, failAt, pc, phone_number, fileOpen, opens,
          examined, exc, gateway, stdout, stderr, status>>

Init ==
  /\ args \in ArgLists
  /\ fileStatus \in {"ok", "missing", "denied"}
  /\ rows \in Files
  /\ failAt \in 0..(Len(rows) + 1)
  /\ (fileStatus # "ok" => rows = <<>> /\ failAt = 0)
  /\ pc = "main"
  /\ phone_number = <<>>
  /\ fileOpen = FALSE
  /\ opens = 0
  /\ examined = 0
  /\ exc = ""
  /\ gateway = None
  /\ stdout = <<>>
  /\ stderr = <<>>
  /\ status = -1

\* len(sys.argv): the program name counts.
SysArgvLen == Len(args) + 1

\* main, line 17: if len(sys.argv) != 2
WrongArgCountLess(n) == n < 2
WrongArgCount(n) == n # 2

\* find_gateway, line 10: if row[1] == phone_number (0-based fields)
MatchesFirstField(row, phone) == row[1] = phone
Matches(row, phone) == row[2] = phone

\* main, line 23: if gateway  (None and '' are falsy)
Truthy(g) == ~g.isNone /\ g.val # <<>>

\* main, lines 17-19: usage error.
MainUsageExitZero ==
  /\ pc = "main"
  /\ WrongArgCount(SysArgvLen)
  /\ stderr' = stderr \o PrintLine(UsageMsg)
  /\ status' = 0
  /\ pc' = "exit"
  /\ UNCHANGED <<args, fileStatus, rows, failAt, phone_number, fileOpen,
                 opens, examined, exc, gateway, stdout>>
MainUsage ==
  /\ pc = "main"
  /\ WrongArgCount(SysArgvLen)
  /\ stderr' = stderr \o PrintLine(UsageMsg)
  /\ status' = 1
  /\ pc' = "exit"
  /\ UNCHANGED <<args, fileStatus, rows, failAt, phone_number, fileOpen,
                 opens, examined, exc, gateway, stdout>>

\* main, lines 21-22: take the argument and call find_gateway.
MainCall ==
  /\ pc = "main"
  /\ ~WrongArgCount(SysArgvLen)
  /\ Len(args) >= 1
  /\ phone_number' = args[1]
  /\ pc' = "open"
  /\ UNCHANGED <<args, fileStatus, rows, failAt, fileOpen, opens, examined,
                 exc, gateway, stdout, stderr, status>>

\* find_gateway, line 7: open() raises.
OpenFail ==
  /\ pc = "open"
  /\ fileStatus # "ok"
  /\ exc' = OpenErrorMsg(fileStatus)
  /\ pc' = "except"
  /\ UNCHANGED <<args, fileStatus, rows, failAt, phone_number, fileOpen,
                 opens, examined, gateway, stdout, stderr, status>>

\* find_gateway, lines 7-8: the file is opened for reading.
OpenOk ==
  /\ pc = "open"
  /\ fileStatus = "ok"
  /\ fileOpen' = TRUE
  /\ opens' = opens + 1
  /\ pc' = "scan"
  /\ UNCHANGED <<args, fileStatus, rows, failAt, phone_number, examined,
                 exc, gateway, stdout, stderr, status>>

\* find_gateway, line 9: fetching the next row raises; the with block closes
\* the file on the way out.
ReadFail ==
  /\ pc = "scan"
  /\ failAt = examined + 1
  /\ exc' = ReadErrorMsg
  /\ fileOpen' = FALSE
  /\ pc' = "except"
  /\ UNCHANGED <<args, fileStatus, rows, failAt, phone_number, opens,
                 examined, gateway, stdout, stderr, status>>

\* find_gateway, lines 9 and 14: the reader is exhausted, the with block
\* closes the file and None is returned.
ScanEnd ==
  /\ pc = "scan"
  /\ failAt # examined + 1
  /\ examined = Len(rows)
  /\ fileOpen' = FALSE
  /\ gateway' = None
  /\ pc' = "back"
  /\ UNCHANGED <<args, fileStatus, rows, failAt, phone_number, opens,
                 examined, exc, stdout, stderr, status>>

\* find_gateway, line 10: row[1] on a row of fewer than two fields raises
\* IndexError; the with block closes the file.
RowIndexErrorSkip ==
  /\ pc = "scan"
  /\ failAt # examined + 1
  /\ examined < Len(rows)
  /\ Len(rows[examined + 1]) < 2
  /\ examined' = examined + 1
  /\ UNCHANGED <<args, fileStatus, rows, failAt, pc, phone_number, fileOpen,
                 opens, exc, gateway, stdout, stderr, status>>
RowIndexErrorLeak ==
  /\ pc = "scan"
  /\ failAt # examined + 1
  /\ examined < Len(rows)
  /\ Len(rows[examined + 1]) < 2
  /\ examined' = examined + 1
  /\ exc' = IndexErrorMsg
  /\ pc' = "except"
  /\ UNCHANGED <<args, fileStatus, rows, failAt, phone_number, fileOpen,
                 opens, gateway, stdout, stderr, status>>
RowIndexError ==
  /\ pc = "scan"
  /\ failAt # examined + 1
  /\ examined < Len(rows)
  /\ Len(rows[examined + 1]) < 2
  /\ examined' = examined + 1
  /\ exc' = IndexErrorMsg
  /\ fileOpen' = FALSE
  /\ pc' = "except"
  /\ UNCHANGED <<args, fileStatus, rows, failAt, phone_number, opens,
                 gateway, stdout, stderr, status>>

\* find_gateway, lines 10-11: the row matches; return row[0], the with block
\* closes the file.
RowMatchContinue ==
  /\ pc = "scan"
  /\ failAt # examined + 1
  /\ examined < Len(rows)
  /\ Len(rows[examined + 1]) >= 2
  /\ Matches(rows[examined + 1], phone_number)
  /\ examined' = examined + 1
  /\ gateway' = Some(rows[examined + 1][1])
  /\ IF examined + 1 = Len(rows)
       THEN fileOpen' = FALSE /\ pc' = "back"
       ELSE UNCHANGED <<fileOpen, pc>>
  /\ UNCHANGED <<args, fileStatus, rows, failAt, phone_number, opens, exc,
                 stdout, stderr, status>>
RowMatch ==
  /\ pc = "scan"
  /\ failAt # examined + 1
  /\ examined < Len(rows)
  /\ Len(rows[examined + 1]) >= 2
  /\ Matches(rows[examined + 1], phone_number)
  /\ examined' = examined + 1
  /\ gateway' = Some(rows[examined + 1][1])
  /\ fileOpen' = FALSE
  /\ pc' = "back"
  /\ UNCHANGED <<args, fileStatus, rows, failAt, phone_number, opens, exc,
                 stdout, stderr, status>>

\* find_gateway, lines 9-10: the row does not match; go on to the next.
RowNext ==
  /\ pc = "scan"
  /\ failAt # examined + 1
  /\ examined < Len(rows)
  /\ Len(rows[examined + 1]) >= 2
  /\ ~Matches(rows[examined + 1], phone_number)
  /\ examined' = examined + 1
  /\ UNCHANGED <<args, fileStatus, rows, failAt, pc, phone_number, fileOpen,
                 opens, exc, gateway, stdout, stderr, status>>

\* find_gateway, lines 12-14: the exception is caught, reported on stderr,
\* and None is returned.
ExceptSilent ==
  /\ pc = "except"
  /\ gateway' = None
  /\ pc' = "back"
  /\ UNCHANGED <<args, fileStatus, rows, failAt, phone_number, fileOpen,
                 opens, examined, exc, stdout, stderr, status>>
ExceptToStdout ==
  /\ pc = "except"
  /\ stdout' = stdout \o PrintLine(ErrorMsg(exc))
  /\ gateway' = None
  /\ pc' = "back"
  /\ UNCHANGED <<args, fileStatus, rows, failAt, phone_number, fileOpen,
                 opens, examined, exc, stderr, status>>
Except ==
  /\ pc = "except"
  /\ stderr' = stderr \o PrintLine(ErrorMsg(exc))
  /\ gateway' = None
  /\ pc' = "back"
  /\ UNCHANGED <<args, fileStatus, rows, failAt, phone_number, fileOpen,
                 opens, examined, exc, stdout, status>>

\* main, lines 23-24: a truthy result is printed; the process ends normally.
MainPrint ==
  /\ pc = "back"
  /\ Truthy(gateway)
  /\ stdout' = stdout \o PrintLine(gateway.val)
  /\ status' = 0
  /\ pc' = "exit"
  /\ UNCHANGED <<args, fileStatus, rows, failAt, phone_number, fileOpen,
                 opens, examined, exc, gateway, stderr>>

\* main, line 23: a falsy result (None or '') prints nothing.
MainSilentPrints ==
  /\ pc = "back"
  /\ ~Truthy(gateway)
  /\ stdout' = stdout \o PrintLine(IF gateway.isNone THEN <<"None">> ELSE gateway.val)
  /\ status' = 0
  /\ pc' = "exit"
  /\ UNCHANGED <<args, fileStatus, rows, failAt, phone_number, fileOpen,
                 opens, examined, exc, gateway, stderr>>
MainSilent ==
  /\ pc = "back"
  /\ ~Truthy(gateway)
  /\ status' = 0
  /\ pc' = "exit"
  /\ UNCHANGED <<args, fileStatus, rows, failAt, phone_number, fileOpen,
                 opens, examined, exc, gateway, stdout, stderr>>

Next ==
  \/ MainUsage
  \/ MainCall
  \/ OpenFail
  \/ OpenOk
  \/ ReadFail
  \/ ScanEnd
  \/ RowIndexError
  \/ RowMatch
  \/ RowNext
  \/ Except
  \/ MainPrint
  \/ MainSilent

Spec == Init /\ [][Next]_vars

(***************************************************************************)
(* Vocabulary of the properties, stated over the inputs (args, fileStatus, *)
(* rows, failAt) and the observable results.                               *)
(***************************************************************************)

\* Number of line terminators written to a stream, or held by a string.
NumLines(stream) == Cardinality({ i \in DOMAIN stream : stream[i] = Newline })

OneArgument == Len(args) = 1
Returned == OneArgument /\ pc \in {"back", "exit"}
Exited == pc = "exit"

Malformed(i) == Len(rows[i]) < 2
MatchAt(i) == Len(rows[i]) >= 2 /\ rows[i][2] = args[1]
AllWellFormed == \A i \in 1..Len(rows) : ~Malformed(i)
Readable == fileStatus = "ok" /\ failAt = 0

\* The first read at which the scan cannot simply go on: the read fails, the
\* rows are exhausted, the row is malformed, or the row matches.
Stops(i) == failAt = i \/ i = Len(rows) + 1 \/ Malformed(i) \/ MatchAt(i)
FirstStop == CHOOSE i \in 1..(Len(rows) + 1) : Stops(i) /\ \A j \in 1..(i - 1) : ~Stops(j)
ReadFailureReached == fileStatus = "ok" /\ failAt # 0 /\ FirstStop = failAt
MalformedReached == fileStatus = "ok" /\ FirstStop # failAt /\ FirstStop <= Len(rows) /\ Malformed(FirstStop)
MatchReached == fileStatus = "ok" /\ FirstStop # failAt /\ FirstStop <= Len(rows) /\ MatchAt(FirstStop)
LookupFails == OneArgument /\ (fileStatus # "ok" \/ ReadFailureReached \/ MalformedReached)

\* C1: for a readable file whose rows all have at least two fields,
\* find_gateway returns the first field of the first row, in file order,
\* whose second field equals the phone number exactly, and None when no row
\* has such a second field; with duplicates the earliest row wins.
C1_FirstMatchReturned ==
  (Returned /\ Readable /\ AllWellFormed) =>
    IF \E i \in 1..Len(rows) : rows[i][2] = args[1]
      THEN \E i \in 1..Len(rows) :
             /\ rows[i][2] = args[1]
             /\ \A j \in 1..(i - 1) : rows[j][2] # args[1]
             /\ gateway = Some(rows[i][1])
      ELSE gateway = None

\* Two rows carry the phone number with different gateways; the first is returned.
C1_Witness ==
  /\ Returned /\ Readable /\ AllWellFormed
  /\ Len(rows) = 2
  /\ rows[1][2] = args[1] /\ rows[2][2] = args[1]
  /\ rows[1][1] # rows[2][1]
  /\ gateway = Some(rows[1][1])

\* C2: whenever the scan finds a matching row, main prints that row's first
\* field to stdout and the process exits with status 0, whatever value the
\* first field has (the phone number being a non-empty string).
C2_MatchIsPrinted ==
  (Exited /\ OneArgument /\ args[1] # <<>> /\ MatchReached) =>
    /\ stdout = PrintLine(rows[FirstStop][1])
    /\ status = 0

\* C3: with an argument count other than one, main prints the usage message
\* to stderr and exits with status 1, never opening the record file and
\* never writing to stdout.
C3_UsageError ==
  ~OneArgument =>
    /\ pc \in {"main", "exit"}
    /\ opens = 0 /\ ~fileOpen /\ exc = ""
    /\ stdout = <<>>
    /\ (Exited => stderr = PrintLine(UsageMsg) /\ status = 1)

\* Two arguments, with a readable non-empty file at hand.
C3_Witness ==
  /\ Exited /\ Len(args) = 2
  /\ fileStatus = "ok" /\ Len(rows) >= 1
  /\ stderr = PrintLine(UsageMsg) /\ status = 1

\* C4: with one argument and a readable file in which no row has a second
\* field equal to it (the empty file included), nothing is written to stdout
\* and the exit status is 0.
C4_NoMatchSilent ==
  (Exited /\ OneArgument /\ Readable /\ \A i \in 1..Len(rows) : ~MatchAt(i)) =>
    /\ stdout = <<>>
    /\ status = 0

\* A non-empty file of well-formed rows, none matching, scanned to the end.
C4_Witness ==
  /\ Exited /\ OneArgument /\ Readable /\ AllWellFormed
  /\ Len(rows) = 2 /\ examined = 2
  /\ \A i \in 1..Len(rows) : ~MatchAt(i)
  /\ stdout = <<>> /\ status = 0

\* C5: when the file cannot be opened, or a read of it fails, find_gateway
\* catches the failure, writes one error message to stderr and returns None;
\* main then writes nothing to stdout and exits with status 0.
C5_FileFailureCaught ==
  (Returned /\ (fileStatus # "ok" \/ ReadFailureReached)) =>
    /\ gateway = None
    /\ exc = (IF fileStatus # "ok" THEN OpenErrorMsg(fileStatus) ELSE ReadErrorMsg)
    /\ stderr = PrintLine(ErrorMsg(exc))
    /\ stdout = <<>>
    /\ (Exited => status = 0)

\* The path does not exist and the process has ended.
C5_Witness ==
  /\ Exited /\ OneArgument /\ fileStatus = "missing"
  /\ stderr = PrintLine(ErrorMsg(NotFoundMsg)) /\ status = 0

\* C6: the exit status is 1 exactly when the argument count is not one;
\* every other run (match, no match, unreadable file, malformed row) exits 0.
C6_ExitStatus ==
  Exited => /\ status \in {0, 1}
            /\ (status = 1 <=> ~OneArgument)

\* A run that ended after a malformed row, with status 0.
C6_Witness ==
  /\ Exited /\ OneArgument /\ MalformedReached
  /\ exc = IndexErrorMsg /\ status = 0

\* C7: when the scan reaches a malformed row before any matching row, it
\* stops there, writes one error line to stderr and returns None, even when
\* a later row has a second field equal to the phone number.
C7_MalformedRowStopsScan ==
  (Returned /\ MalformedReached) =>
    /\ examined = FirstStop
    /\ gateway = None
    /\ stderr = PrintLine(ErrorMsg(IndexErrorMsg))
    /\ NumLines(stderr) = 1

\* A malformed first row followed by a matching row.
C7_Witness ==
  /\ Returned /\ MalformedReached
  /\ FirstStop = 1 /\ Len(rows) = 2 /\ MatchAt(2)
  /\ gateway = None

\* C8: once the first matching row is found no further row is examined: the
\* result is that row's first field and stderr stays empty, whatever follows
\* the row (a duplicate phone number, a malformed row, a failing read).
C8_NothingAfterFirstMatch ==
  (Returned /\ MatchReached) =>
    /\ examined = FirstStop
    /\ gateway = Some(rows[FirstStop][1])
    /\ stderr = <<>>
    /\ exc = ""

\* The first row matches and the row after it is a duplicate or malformed.
C8_Witness ==
  /\ Returned /\ MatchReached
  /\ FirstStop = 1 /\ Len(rows) = 2
  /\ (Malformed(2) \/ (MatchAt(2) /\ rows[2][1] # rows[1][1]))
  /\ gateway = Some(rows[1][1])

\* C9: the record file is opened at most once per invocation, and on every
\* path on which it was opened (first match, scan to the end, exception
\* while reading a row) it is closed by the time find_gateway returns.
C9_OpenedOnceAndClosed ==
  /\ opens <= 1
  /\ (fileOpen => opens = 1)
  /\ (pc \in {"back", "exit"} => ~fileOpen)

\* The file was opened, a row raised, and the lookup has returned.
C9_Witness ==
  /\ pc = "back" /\ opens = 1 /\ ~fileOpen
  /\ exc = IndexErrorMsg

\* C10 as stated: at most one line on stdout and at most one on stderr,
\* never both; stderr has exactly one line on a usage error or a file/row
\* failure and none otherwise; stdout has a line only when a gateway was
\* returned, and that line is exactly the identifier.
C10_OneLinePerStream ==
  /\ NumLines(stdout) <= 1
  /\ NumLines(stderr) <= 1
  /\ ~(stdout # <<>> /\ stderr # <<>>)
  /\ (Exited => NumLines(stderr) = (IF ~OneArgument \/ LookupFails THEN 1 ELSE 0))
  /\ (Exited /\ ~(~OneArgument \/ LookupFails) => stderr = <<>>)
  /\ (stdout # <<>> => ~gateway.isNone /\ stdout = PrintLine(gateway.val))

\* C10 amended: at most one line on stderr and at most one print to stdout,
\* never both; stderr has exactly one line on a usage error or a file/row
\* failure and none otherwise; stdout has output only when a gateway was
\* returned, and the output is exactly the identifier followed by one line
\* terminator: one line when the identifier holds no line break, one more
\* line for each line break it holds.
C10_OnePrintPerStream ==
  /\ NumLines(stderr) <= 1
  /\ ~(stdout # <<>> /\ stderr # <<>>)
  /\ (Exited => NumLines(stderr) = (IF ~OneArgument \/ LookupFails THEN 1 ELSE 0))
  /\ (Exited /\ ~(~OneArgument \/ LookupFails) => stderr = <<>>)
  /\ (stdout # <<>> => /\ ~gateway.isNone
                       /\ stdout = PrintLine(gateway.val)
                       /\ NumLines(stdout) = 1 + NumLines(gateway.val))

\* A gateway identifier with a line break inside was printed.
C10_Witness ==
  /\ Exited /\ OneArgument
  /\ ~gateway.isNone /\ NumLines(gateway.val) = 1
  /\ stdout = PrintLine(gateway.val) /\ NumLines(stdout) = 2
  /\ stderr = <<>>

====
